---- MODULE Spec2Model ----
(***************************************************************************)
(* Verification model of the fantasy-railway running-time simulator:       *)
(*   - build_network      (station identity resolution, edge construction) *)
(*   - find_optimal_route (core_logic.py) and the inline route computation *)
(*     of app.py, with the per-hop line attribution                        *)
(*   - TrainSim           (_calc_brake_pattern and run)                    *)
(*                                                                         *)
(* Geometry.  Every coordinate of the model lies on the equator, so a      *)
(* point (lat, lon) = (0, lon) is given by its position in metres along    *)
(* the equator.  For such points hubeny_distance reduces to                *)
(* a * |lon1 - lon2|, the difference of the two positions.                 *)
(***************************************************************************)
EXTENDS Integers, Sequences, FiniteSets, TLC

VARIABLES
    map_data,           \* the parsed input: the sequence of line records
    pc,                 \* position in the program
    line_idx, pt_idx,   \* loop cursors of build_network (0-based, as enumerate)
    known_stations,     \* raw label -> entries, kept as one list of [raw_name, id, coords]
    station_id_map,     \* (line_idx, pt_idx) -> station identity
    station_coords,     \* station identity -> coordinate
    all_line_names,     \* active line names in first-seen order
    line_stations_dict, \* line name -> ordered station identities
    G,                  \* the base multigraph
    edge_details,       \* unordered station pair -> per-line edge records
    G_built,            \* the base multigraph as build_network returned it
    lib,                \* the shortest-path search of the installed library
    req,                \* the arguments of the last route request
    outcome,            \* its outcome: "none", "route", "not_found", "raised"
    route,              \* the station list it returned
    p1_len,             \* number of stations of the outbound part (0 without via)
    track,              \* the track samples of the simulated leg
    spec,               \* the vehicle spec of the simulated leg
    run_t, run_x, run_v, curr,  \* TrainSim.run locals t, x, v, curr
    run_exit,           \* how run left its loop: "", "break", "end", "cap"
    costed,             \* the costed copy the last route computation worked on
    hops,               \* the per-hop line attribution of the last app route
    selected_indices,   \* the stop plan: route indices (0-based), as simulated
    leg_i,              \* loop cursor over the legs of the stop plan (0-based)
    legs,               \* the legs processed so far, with geometry and result
    tri,                \* the three points handed to calculate_radius
    radius              \* what calculate_radius returned for them

netVars == <<map_data, pc, line_idx, pt_idx, known_stations, station_id_map,
             station_coords, all_line_names, line_stations_dict, G,
             edge_details, G_built>>
routeVars == <<lib, req, outcome, route, p1_len>>
simVars == <<track, spec, run_t, run_x, run_v, curr, run_exit>>
planVars == <<selected_indices, leg_i, legs>>
geoVars == <<tri, radius>>
appVars == <<costed, hops, planVars, geoVars>>
vars == <<netVars, routeVars, simVars, appVars>>

-----------------------------------------------------------------------------
(* Small helpers                                                           *)

Range(s) == {s[i] : i \in 1..Len(s)}

Min2(a, b) == IF a <= b THEN a ELSE b

Max2(a, b) == IF a >= b THEN a ELSE b

Last(s) == s[Len(s)]

\* dict.get / key lookup on a function with a finite domain
Has(f, k) == k \in DOMAIN f

\* dict[k] = val : overwrite or insert
Put(f, k, val) == (k :> val) @@ f

EmptyMap == [k \in {} |-> 0]

-----------------------------------------------------------------------------
(* 1. Geometry                                                             *)

\* hubeny_distance for two points of the equator, in metres
hubeny_distance(p, q) == IF p >= q THEN p - q ELSE q - p

SAME_STATION_THRESHOLD == 1000

-----------------------------------------------------------------------------
(* 2. build_network                                                        *)

\* line.get('type') == 1 : a planned line, skipped by both passes
IsPlanned(line) == line.type = 1

\* line.get('name', f'line{line_idx}') of the first pass; an absent name is <<>>
LineNameResolve(line, li) ==
    IF line.name # <<>> THEN line.name[1] ELSE "Line" \o ToString(li)

\* line.get('name', 'unknown') of the second pass
LineNameEdges(line) ==
    IF line.name # <<>> THEN line.name[1] ELSE "Unknown"

\* len(p) >= 3 and p[2] == 's'
IsStationPoint(p) == p.st

\* the raw label: p[3] when present and not blank, else a placeholder
\* carrying the line and point index
RawName(p, li, pi) ==
    IF p.label # "" THEN p.label
    ELSE "Unset(" \o ToString(li) \o "-" \o ToString(pi) \o ")"

\* known_stations[raw_name]
EntriesOf(ks, raw_name) == SelectSeq(ks, LAMBDA e : e.raw_name = raw_name)

\* a threshold test that also accepts the threshold distance itself
WithinThreshold_inclusive(dist) == dist <= SAME_STATION_THRESHOLD

\* if dist < SAME_STATION_THRESHOLD
WithinThreshold(dist) == dist < SAME_STATION_THRESHOLD

\* the scan for the first entry within the threshold; <<>> is None
RECURSIVE FindEntryFrom(_, _, _)
FindEntryFrom(entries, pos, i) ==
    IF i > Len(entries) THEN <<>>
    ELSE IF WithinThreshold(hubeny_distance(pos, entries[i].coords))
         THEN <<entries[i].id>>
         ELSE FindEntryFrom(entries, pos, i + 1)

FindEntry(entries, pos) == FindEntryFrom(entries, pos, 1)

\* while unique_id in existing_ids: unique_id = f"{base_id} {c}"; c += 1
RECURSIVE Disambiguate(_, _, _, _)
Disambiguate(unique_id, base_id, c, existing_ids) ==
    IF unique_id \in existing_ids
    THEN Disambiguate(base_id \o " " \o ToString(c), base_id, c + 1, existing_ids)
    ELSE unique_id

\* the identity minted for a station point that matched no entry
MintId(entries, raw_name, line_name) ==
    IF Len(entries) = 0 THEN raw_name
    ELSE LET base_id == raw_name \o " (" \o line_name \o ")"
         IN  Disambiguate(base_id, base_id, 2, {entries[i].id : i \in 1..Len(entries)})

\* the identity given to the station point p = raw_points[pi] of line li
ResolvedId(ks, p, li, pi, line_name) ==
    LET raw_name == RawName(p, li, pi)
        entries  == EntriesOf(ks, raw_name)
        found_id == FindEntry(entries, p.pos)
    IN  IF found_id # <<>> THEN found_id[1]
        ELSE MintId(entries, raw_name, line_name)

\* TRUE when that point matched no entry and mints a new identity
IsNewStation(ks, p, li, pi) ==
    FindEntry(EntriesOf(ks, RawName(p, li, pi)), p.pos) = <<>>

\* the cursor after point pi of line li: the next point, or the header of the
\* next line, or the start of the second pass
AfterPoint(li, pi) ==
    IF pi + 1 < Len(map_data[li + 1].point)
    THEN [pc |-> "resolve", line_idx |-> li, pt_idx |-> pi + 1]
    ELSE IF li + 1 < Len(map_data)
         THEN [pc |-> "resolve", line_idx |-> li + 1, pt_idx |-> -1]
         ELSE [pc |-> "edges", line_idx |-> 0, pt_idx |-> -1]

AfterLine(li) ==
    IF li + 1 < Len(map_data)
    THEN [pc |-> "resolve", line_idx |-> li + 1, pt_idx |-> -1]
    ELSE [pc |-> "edges", line_idx |-> 0, pt_idx |-> -1]

\* G.add_edge(u, v, key=line_name, weight=dist, line_name=line_name): a new
\* edge, or new attributes for the edge that already joins u and v under key
SameEdge(e, u, v, key) == {e.u, e.v} = {u, v} /\ e.key = key

AddNode(nodes, n) == IF n \in Range(nodes) THEN nodes ELSE Append(nodes, n)

add_edge(g, u, v, key, weight) ==
    LET new == [u |-> u, v |-> v, key |-> key, weight |-> weight, line_name |-> key]
        hit == {i \in 1..Len(g.edges) : SameEdge(g.edges[i], u, v, key)}
    IN  [nodes |-> AddNode(AddNode(g.nodes, u), v),
         edges |-> IF hit = {} THEN Append(g.edges, new)
                   ELSE [i \in 1..Len(g.edges) |->
                           IF i \in hit
                           THEN [g.edges[i] EXCEPT !.weight = weight, !.line_name = key]
                           ELSE g.edges[i]]]

\* edge_details[key][line_name] = {...} with key = tuple(sorted((u, v))): the
\* unordered pair.  A dict keeps the position of a key that is assigned again.
PutEdgeDetail(ed, u, v, line_name, points, weight) ==
    LET new == [key |-> {u, v}, line_name |-> line_name, points |-> points,
                weight |-> weight]
        hit == {i \in 1..Len(ed) : ed[i].key = {u, v} /\ ed[i].line_name = line_name}
    IN  IF hit = {} THEN Append(ed, new)
        ELSE [i \in 1..Len(ed) |-> IF i \in hit THEN new ELSE ed[i]]

\* line_stations: the station points of line li, in order, with their raw index
LineStations(li) ==
    LET n == Len(map_data[li + 1].point)
        F[i \in 0..n] ==
            IF i = 0 THEN <<>>
            ELSE IF Has(station_id_map, <<li, i - 1>>)
                 THEN Append(F[i - 1], [id |-> station_id_map[<<li, i - 1>>],
                                        raw_idx |-> i - 1])
                 ELSE F[i - 1]
    IN  F[n]

\* segment_points: the raw coordinates from raw index a to raw index b, inclusive
SegmentPoints(raw_points, a, b) == [k \in 1..(b - a + 1) |-> raw_points[a + k].pos]

\* the summed hubeny_distance along a polyline
RECURSIVE PolylineLength(_)
PolylineLength(points) ==
    IF Len(points) < 2 THEN 0
    ELSE hubeny_distance(points[1], points[2]) + PolylineLength(Tail(points))

\* the edge loop of one line: for i in range(len(line_stations) - 1)
RECURSIVE AddLineEdges(_, _, _, _, _)
AddLineEdges(acc, line_stations, raw_points, line_name, i) ==
    IF i > Len(line_stations) - 1 THEN acc
    ELSE LET st1 == line_stations[i]
             st2 == line_stations[i + 1]
             segment_points == SegmentPoints(raw_points, st1.raw_idx, st2.raw_idx)
             dist == PolylineLength(segment_points)
         IN  AddLineEdges(
                 [G |-> add_edge(acc.G, st1.id, st2.id, line_name, dist),
                  edge_details |-> PutEdgeDetail(acc.edge_details, st1.id, st2.id,
                                                 line_name, segment_points, dist)],
                 line_stations, raw_points, line_name, i + 1)

\* first pass, top of the line loop: skip a planned line, else record the name
ResolveLineHeader ==
    /\ pc = "resolve"
    /\ pt_idx = -1
    /\ LET line == map_data[line_idx + 1]
           line_name == LineNameResolve(line, line_idx)
           nxt == IF IsPlanned(line) \/ Len(line.point) = 0
                  THEN AfterLine(line_idx)
                  ELSE [pc |-> "resolve", line_idx |-> line_idx, pt_idx |-> 0]
       IN  /\ all_line_names' =
                 IF IsPlanned(line) \/ line_name \in Range(all_line_names)
                 THEN all_line_names
                 ELSE Append(all_line_names, line_name)
           /\ pc' = nxt.pc
           /\ line_idx' = nxt.line_idx
           /\ pt_idx' = nxt.pt_idx
    /\ UNCHANGED <<map_data, known_stations, station_id_map, station_coords,
                   line_stations_dict, G, edge_details, G_built>>
    /\ UNCHANGED <<routeVars, simVars, appVars>>

\* first pass, one point of the line
ResolvePoint ==
    /\ pc = "resolve"
    /\ pt_idx >= 0
    /\ LET line == map_data[line_idx + 1]
           line_name == LineNameResolve(line, line_idx)
           p == line.point[pt_idx + 1]
           unique_id == ResolvedId(known_stations, p, line_idx, pt_idx, line_name)
           fresh == IsNewStation(known_stations, p, line_idx, pt_idx)
           nxt == AfterPoint(line_idx, pt_idx)
       IN  /\ IF IsStationPoint(p)
              THEN /\ known_stations' =
                        IF fresh
                        THEN Append(known_stations,
                                    [raw_name |-> RawName(p, line_idx, pt_idx),
                                     id |-> unique_id, coords |-> p.pos])
                        ELSE known_stations
                   /\ station_coords' =
                        IF fresh THEN Put(station_coords, unique_id, p.pos)
                        ELSE station_coords
                   /\ station_id_map' = Put(station_id_map, <<line_idx, pt_idx>>, unique_id)
              ELSE UNCHANGED <<known_stations, station_coords, station_id_map>>
           /\ pc' = nxt.pc
           /\ line_idx' = nxt.line_idx
           /\ pt_idx' = nxt.pt_idx
    /\ UNCHANGED <<map_data, all_line_names, line_stations_dict, G, edge_details,
                   G_built>>
    /\ UNCHANGED <<routeVars, simVars, appVars>>

\* second pass, one line: its station list and its edges
BuildLineEdges ==
    /\ pc = "edges"
    /\ LET line == map_data[line_idx + 1]
           line_name == LineNameEdges(line)
           line_stations == LineStations(line_idx)
           built == AddLineEdges([G |-> G, edge_details |-> edge_details],
                                 line_stations, line.point, line_name, 1)
           last == line_idx + 1 >= Len(map_data)
           newG == IF IsPlanned(line) THEN G ELSE built.G
       IN  /\ line_stations_dict' =
                 IF IsPlanned(line) THEN line_stations_dict
                 ELSE Put(line_stations_dict, line_name,
                          [i \in 1..Len(line_stations) |-> line_stations[i].id])
           /\ G' = newG
           /\ edge_details' = IF IsPlanned(line) THEN edge_details
                              ELSE built.edge_details
           /\ pc' = IF last THEN "built" ELSE "edges"
           /\ line_idx' = IF last THEN 0 ELSE line_idx + 1
           /\ G_built' = IF last THEN newG ELSE G_built
    /\ UNCHANGED <<map_data, pt_idx, known_stations, station_id_map, station_coords,
                   all_line_names>>
    /\ UNCHANGED <<routeVars, simVars, appVars>>

-----------------------------------------------------------------------------
(* 3. Route selection                                                      *)

\* Graph objects live in a store (a sequence of graph values) and are named
\* by their index: the base network G is object 1.  G.copy() makes a new
\* object with its own attribute dicts; the weights are numbers, so nothing
\* is shared between the copy and the original.
BaseRef == 1

\* a copy that is the same object under another name
copy_alias(store, ref) == [store |-> store, ref |-> ref]

copy(store, ref) == [store |-> Append(store, store[ref]), ref |-> Len(store) + 1]

\* d['weight'] of the cost adjustment: x10 avoided, x0.2 preferred, else as is
\* (every weight of the model is a multiple of 5, so x0.2 is exact)
AdjustedWeight_swapped(base_weight, l_name, avoid_lines, prioritize_lines) ==
    IF l_name \in avoid_lines THEN (base_weight * 2) \div 10
    ELSE IF l_name \in prioritize_lines THEN base_weight * 10
    ELSE base_weight

AdjustedWeight(base_weight, l_name, avoid_lines, prioritize_lines) ==
    IF l_name \in avoid_lines THEN base_weight * 10
    ELSE IF l_name \in prioritize_lines THEN (base_weight * 2) \div 10
    ELSE base_weight

\* for u, v, k, d in G_calc.edges(keys=True, data=True): d['weight'] = ...
AdjustCosts(store, ref, avoid_lines, prioritize_lines) ==
    [store EXCEPT ![ref].edges =
        [i \in 1..Len(store[ref].edges) |->
            [store[ref].edges[i] EXCEPT !.weight =
                AdjustedWeight(store[ref].edges[i].weight,
                               store[ref].edges[i].line_name,
                               avoid_lines, prioritize_lines)]]]

REVISIT_PENALTY == 10000

\* for key in G_calc[u_node][v_node]: G_calc[u_node][v_node][key]['weight'] *= 10000.0
PenaliseHop_none(g, u_node, v_node) == g

\* a penalty for the first edge between the two stations only
PenaliseHop_one_line(g, u_node, v_node) ==
    LET hit == {i \in 1..Len(g.edges) : {g.edges[i].u, g.edges[i].v} = {u_node, v_node}}
    IN  [g EXCEPT !.edges =
            [i \in 1..Len(g.edges) |->
                IF i \in hit /\ \A j \in hit : i <= j
                THEN [g.edges[i] EXCEPT !.weight = @ * REVISIT_PENALTY]
                ELSE g.edges[i]]]

PenaliseHop(g, u_node, v_node) ==
    [g EXCEPT !.edges =
        [i \in 1..Len(g.edges) |->
            IF {g.edges[i].u, g.edges[i].v} = {u_node, v_node}
            THEN [g.edges[i] EXCEPT !.weight = @ * REVISIT_PENALTY]
            ELSE g.edges[i]]]

\* for i in range(len(p1) - 1): ... (has_edge holds for every hop of a path)
RECURSIVE PenaliseFrom(_, _, _)
PenaliseFrom(g, p1, i) ==
    IF i > Len(p1) - 1 THEN g
    ELSE PenaliseFrom(PenaliseHop(g, p1[i], p1[i + 1]), p1, i + 1)

PenalisePath(store, ref, p1) == [store EXCEPT ![ref] = PenaliseFrom(store[ref], p1, 1)]

\* --- nx.shortest_path(G_calc, source, target, weight='weight') ---

NodesOf(g) == Range(g.nodes)

\* the weights of the parallel edges between u and v
HopWeights(g, u, v) ==
    {g.edges[i].weight : i \in {j \in 1..Len(g.edges) : {g.edges[j].u, g.edges[j].v} = {u, v}}}

HasEdge(g, u, v) == HopWeights(g, u, v) # {}

SetMin(S) == CHOOSE m \in S : \A o \in S : m <= o

\* the weight the search sees between two stations: the cheapest parallel edge
HopCost(g, u, v) == SetMin(HopWeights(g, u, v))

RECURSIVE PathCost(_, _)
PathCost(g, path) ==
    IF Len(path) < 2 THEN 0
    ELSE HopCost(g, path[1], path[2]) + PathCost(g, Tail(path))

\* the cheapest-edge weight between every two stations; -1 where no edge is
WeightMatrix(g) ==
    [pr \in NodesOf(g) \X NodesOf(g) |->
        IF HasEdge(g, pr[1], pr[2]) THEN HopCost(g, pr[1], pr[2]) ELSE -1]

\* every simple path that extends path to target, with its cost
RECURSIVE PathsFrom(_, _, _, _, _)
PathsFrom(W, nodes, path, cost, target) ==
    IF Last(path) = target THEN {[path |-> path, cost |-> cost]}
    ELSE UNION {PathsFrom(W, nodes, Append(path, n), cost + W[<<Last(path), n>>], target) :
                  n \in {m \in nodes \ Range(path) : W[<<Last(path), m>>] >= 0}}

SimplePaths(g, source, target) ==
    PathsFrom(WeightMatrix(g), NodesOf(g), <<source>>, 0, target)

CheapestPaths(g, source, target) ==
    LET all == SimplePaths(g, source, target)
        low == SetMin({r.cost : r \in all})
    IN  IF all = {} THEN {} ELSE {r.path : r \in {q \in all : q.cost = low}}

\* position of a station in the node order of the graph
NodeIndex(g, n) == CHOOSE i \in 1..Len(g.nodes) : g.nodes[i] = n

\* lexicographic order of two paths by node order, a shorter prefix first
RECURSIVE PathBefore(_, _, _)
PathBefore(g, a, b) ==
    IF Len(a) = 0 THEN Len(b) > 0
    ELSE IF Len(b) = 0 THEN FALSE
    ELSE IF a[1] # b[1] THEN NodeIndex(g, a[1]) < NodeIndex(g, b[1])
    ELSE PathBefore(g, Tail(a), Tail(b))

\* The library returns one cheapest path.  Which one it returns among
\* several of equal cost, and which exception it raises for a target that is
\* no node of the graph, depends on the search the installed version runs:
\*   "dijkstra"       first path in node order, NetworkXNoPath for the target
\*   "bidirectional"  last path in node order, NodeNotFound for the target
\* A source that is no node of the graph raises NodeNotFound in both.
Libraries == {"dijkstra", "bidirectional"}

shortest_path(g, source, target, library) ==
    IF source \notin NodesOf(g) THEN [kind |-> "NodeNotFound", path |-> <<>>]
    ELSE IF target \notin NodesOf(g)
         THEN [kind |-> IF library = "dijkstra" THEN "NetworkXNoPath" ELSE "NodeNotFound",
               path |-> <<>>]
    ELSE LET best == CheapestPaths(g, source, target)
         IN  IF best = {} THEN [kind |-> "NetworkXNoPath", path |-> <<>>]
             ELSE [kind |-> "path",
                   path |-> IF library = "dijkstra"
                            THEN CHOOSE a \in best :
                                    \A b \in best \ {a} : PathBefore(g, a, b)
                            ELSE CHOOSE a \in best :
                                    \A b \in best \ {a} : PathBefore(g, b, a)]

\* the outcome of a route computation for an exception of the library
Caught(kind) == IF kind = "NetworkXNoPath" THEN "not_found" ELSE "raised"

Join_keep_head(p1, p2) == p1 \o p2

\* return p1 + p2[1:]
Join(p1, p2) == p1 \o Tail(p2)

\* find_optimal_route(G, dept_st, dest_st, via_st, avoid_lines,
\*                    prioritize_lines, avoid_revisit); via_st = <<>> is None.
\* Yields the outcome, the returned route and the object store after the call.
find_optimal_route(store, dept_st, dest_st, via_st, avoid_lines, prioritize_lines, avoid_revisit, library) ==
    LET c      == copy(store, BaseRef)
        G_calc == c.ref
        s1     == AdjustCosts(c.store, G_calc, avoid_lines, prioritize_lines)
    IN  IF via_st # <<>>
        THEN LET r1 == shortest_path(s1[G_calc], dept_st, via_st[1], library)
                 p1 == r1.path
                 s2 == IF avoid_revisit /\ r1.kind = "path"
                       THEN PenalisePath(s1, G_calc, p1) ELSE s1
                 r2 == shortest_path(s2[G_calc], via_st[1], dest_st, library)
                 p2 == r2.path
             IN  IF r1.kind # "path"
                 THEN [outcome |-> Caught(r1.kind), route |-> <<>>, p1_len |-> 0,
                       store |-> s1]
                 ELSE IF r2.kind # "path"
                 THEN [outcome |-> Caught(r2.kind), route |-> <<>>, p1_len |-> 0,
                       store |-> s2]
                 ELSE [outcome |-> "route", route |-> Join(p1, p2),
                       p1_len |-> Len(p1), store |-> s2]
        ELSE LET r == shortest_path(s1[G_calc], dept_st, dest_st, library)
             IN  IF r.kind # "path"
                 THEN [outcome |-> Caught(r.kind), route |-> <<>>, p1_len |-> 0,
                       store |-> s1]
                 ELSE [outcome |-> "route", route |-> r.path, p1_len |-> 0,
                       store |-> s1]

\* --- per-hop line attribution (app.py) ---

Reverse(q) == [i \in 1..Len(q) |-> q[Len(q) + 1 - i]]

\* the candidates in the reverse of dict order
Candidates_reversed(ed, u, v) == Reverse(SelectSeq(ed, LAMBDA e : e.key = {u, v}))

\* candidates = edge_details.get(key, {}) in dict order
Candidates(ed, u, v) == SelectSeq(ed, LAMBDA e : e.key = {u, v})

\* for l_name, info in candidates.items(): if cost < min_cost: ... ;
\* <<>> is best_line = None, min_cost = inf
RECURSIVE BestLineFrom(_, _, _, _, _)
BestLineFrom(cands, i, best, avoid_lines, prioritize_lines) ==
    IF i > Len(cands) THEN best
    ELSE LET cost == AdjustedWeight(cands[i].weight, cands[i].line_name,
                                    avoid_lines, prioritize_lines)
         IN  BestLineFrom(cands, i + 1,
                          IF best = <<>> \/ cost < best[1].cost
                          THEN <<[line |-> cands[i].line_name, cost |-> cost,
                                  weight |-> cands[i].weight,
                                  points |-> cands[i].points]>>
                          ELSE best,
                          avoid_lines, prioritize_lines)

BestLine(ed, u, v, avoid_lines, prioritize_lines) ==
    BestLineFrom(Candidates(ed, u, v), 1, <<>>, avoid_lines, prioritize_lines)

\* the line attributed to each hop of a route (<<>> for a hop without record)
HopLines(ed, nodes, avoid_lines, prioritize_lines) ==
    [i \in 1..(Len(nodes) - 1) |->
        LET b == BestLine(ed, nodes[i], nodes[i + 1], avoid_lines, prioritize_lines)
        IN  IF b = <<>> THEN <<>> ELSE <<b[1].line>>]

\* if d_end < d_start: pts[::-1] else pts, with u_coord = station_coords[u]
Oriented(pts, u_coord) ==
    LET d_start == hubeny_distance(pts[1], u_coord)
        d_end   == hubeny_distance(Last(pts), u_coord)
    IN  IF d_end < d_start THEN Reverse(pts) ELSE pts

\* the loop over the hops of the route: the best line of each hop with its
\* adjusted cost, its weight and its polyline turned towards the next station
\* (a hop without best line adds nothing)
RECURSIVE Attribution(_, _, _, _, _)
Attribution(ed, coords, nodes, avoid_lines, prioritize_lines) ==
    IF Len(nodes) < 2 THEN <<>>
    ELSE LET b == BestLine(ed, nodes[1], nodes[2], avoid_lines, prioritize_lines)
             rest == Attribution(ed, coords, Tail(nodes), avoid_lines, prioritize_lines)
         IN  IF b = <<>> THEN rest
             ELSE <<[u |-> nodes[1], v |-> nodes[2], line |-> b[1].line,
                     cost |-> b[1].cost, weight |-> b[1].weight,
                     pts |-> Oriented(b[1].points, coords[nodes[1]])]>> \o rest

\* the inline route computation of app.py: no no-repeat mode; NetworkXNoPath
\* and every other exception are reported and the script stops
app_route(store, dept_st, dest_st, via_st, avoid_lines, prioritize_lines, library) ==
    LET c      == copy(store, BaseRef)
        G_calc == c.ref
        s1     == AdjustCosts(c.store, G_calc, avoid_lines, prioritize_lines)
        Stop(kind) == [outcome |-> IF kind = "NetworkXNoPath" THEN "not_found"
                                   ELSE "error",
                       route |-> <<>>, p1_len |-> 0, store |-> s1]
    IN  IF via_st # <<>>
        THEN LET r1 == shortest_path(s1[G_calc], dept_st, via_st[1], library)
                 r2 == shortest_path(s1[G_calc], via_st[1], dest_st, library)
             IN  IF r1.kind # "path" THEN Stop(r1.kind)
                 ELSE IF r2.kind # "path" THEN Stop(r2.kind)
                 ELSE [outcome |-> "route", route |-> Join(r1.path, r2.path),
                       p1_len |-> Len(r1.path), store |-> s1]
        ELSE LET r == shortest_path(s1[G_calc], dept_st, dest_st, library)
             IN  IF r.kind # "path" THEN Stop(r.kind)
                 ELSE [outcome |-> "route", route |-> r.path, p1_len |-> 0,
                       store |-> s1]

\* --- the requests the program can receive ---

\* the stations the selectors offer: every node of G, and the station list of
\* every listed line that has one
Selectable ==
    NodesOf(G) \cup
    UNION {Range(line_stations_dict[n]) :
             n \in (DOMAIN line_stations_dict) \cap Range(all_line_names)}

MaxPrefLines == 1

\* the avoid and prefer selections: subsets of the listed line names
LineChoices == {S \in SUBSET Range(all_line_names) : Cardinality(S) <= MaxPrefLines}

EmptyGraph == [nodes |-> <<>>, edges |-> <<>>]

NoRequest == [fn |-> "none", dept_st |-> "", dest_st |-> "", via_st |-> <<>>,
              avoid_lines |-> {}, prioritize_lines |-> {}, avoid_revisit |-> FALSE]

\* a call of find_optimal_route on the built network
FindOptimalRoute ==
    /\ pc = "built"
    /\ \E dept_st \in Selectable, dest_st \in Selectable,
          via_st \in {<<>>} \cup {<<n>> : n \in Selectable},
          avoid_lines \in LineChoices, prioritize_lines \in LineChoices,
          avoid_revisit \in BOOLEAN :
          \E res \in {find_optimal_route(<<G>>, dept_st, dest_st, via_st, avoid_lines,
                                        prioritize_lines, avoid_revisit, lib)} :
              /\ req' = [fn |-> "core", dept_st |-> dept_st, dest_st |-> dest_st,
                         via_st |-> via_st, avoid_lines |-> avoid_lines,
                         prioritize_lines |-> prioritize_lines,
                         avoid_revisit |-> avoid_revisit]
              /\ outcome' = res.outcome
              /\ route' = res.route
              /\ p1_len' = res.p1_len
              /\ G' = res.store[BaseRef]
              /\ costed' = Last(res.store)
    /\ hops' = <<>>
    /\ pc' = "routed"
    /\ UNCHANGED <<map_data, line_idx, pt_idx, known_stations, station_id_map,
                   station_coords, all_line_names, line_stations_dict, edge_details,
                   G_built, lib>>
    /\ UNCHANGED <<simVars, planVars, geoVars>>

\* a rerun of the app script with the selected stations and line preferences
AppRoute ==
    /\ pc = "built"
    /\ \E dept_st \in Selectable, dest_st \in Selectable,
          via_st \in {<<>>} \cup {<<n>> : n \in Selectable},
          avoid_lines \in LineChoices, prioritize_lines \in LineChoices :
          \E res \in {app_route(<<G>>, dept_st, dest_st, via_st, avoid_lines,
                               prioritize_lines, lib)} :
              /\ req' = [fn |-> "app", dept_st |-> dept_st, dest_st |-> dest_st,
                         via_st |-> via_st, avoid_lines |-> avoid_lines,
                         prioritize_lines |-> prioritize_lines,
                         avoid_revisit |-> FALSE]
              /\ outcome' = res.outcome
              /\ route' = res.route
              /\ p1_len' = res.p1_len
              /\ G' = res.store[BaseRef]
              /\ costed' = Last(res.store)
              /\ hops' = IF res.outcome = "route"
                         THEN Attribution(edge_details, station_coords, res.route,
                                          avoid_lines, prioritize_lines)
                         ELSE <<>>
    /\ pc' = "routed"
    /\ UNCHANGED <<map_data, line_idx, pt_idx, known_stations, station_id_map,
                   station_coords, all_line_names, line_stations_dict, edge_details,
                   G_built, lib>>
    /\ UNCHANGED <<simVars, planVars, geoVars>>

\* the caller is done with the result and the next request can be made: the
\* result is dropped, the network object stays as the call left it
Rerun ==
    /\ pc = "routed"
    /\ pc' = "built"
    /\ req' = NoRequest
    /\ outcome' = "none"
    /\ route' = <<>>
    /\ p1_len' = 0
    /\ costed' = EmptyGraph
    /\ hops' = <<>>
    /\ UNCHANGED <<map_data, line_idx, pt_idx, known_stations, station_id_map,
                   station_coords, all_line_names, line_stations_dict, G,
                   edge_details, G_built, lib>>
    /\ UNCHANGED <<simVars, planVars, geoVars>>

-----------------------------------------------------------------------------
(* Inputs                                                                  *)

Stn(label, pos) == [pos |-> pos, st |-> TRUE, label |-> label]

Pnt(pos) == [pos |-> pos, st |-> FALSE, label |-> ""]

ActiveLine(name, points) == [type |-> 0, name |-> <<name>>, point |-> points]

\* the sequences over S of lo to hi elements, no element twice
DistinctSeqs(S, lo, hi) ==
    {q \in UNION {[1..n -> S] : n \in lo..hi} :
        \A i, j \in 1..Len(q) : i # j => q[i] # q[j]}

MaxPts == 3

\* station points of the route networks: a and b lie 5 m apart
RoutePoints == {Stn("a", 0), Stn("b", 5), Stn("c", 3000)}

\* a point that is no station, far from the stations
Detour == Pnt(8000)

\* two named active lines: L with two station points, drawn eastwards, M with
\* one to MaxPts station points in any order or with two station points and
\* the detour between them
RouteMaps ==
    {<<ActiveLine("L", l), ActiveLine("M", m)>> :
        l \in {q \in DistinctSeqs(RoutePoints, 2, 2) : q[1].pos < q[2].pos},
        m \in DistinctSeqs(RoutePoints, 1, MaxPts) \cup
              {<<d[1], Detour, d[2]>> : d \in DistinctSeqs(RoutePoints, 2, 2)}}


InitBuild(maps) ==
    /\ map_data \in maps
    /\ pc = "resolve"
    /\ line_idx = 0
    /\ pt_idx = -1
    /\ known_stations = <<>>
    /\ station_id_map = EmptyMap
    /\ station_coords = EmptyMap
    /\ all_line_names = <<>>
    /\ line_stations_dict = EmptyMap
    /\ G = EmptyGraph
    /\ edge_details = <<>>
    /\ G_built = EmptyGraph

InitRoute(libraries) ==
    /\ lib \in libraries
    /\ req = NoRequest
    /\ outcome = "none"
    /\ route = <<>>
    /\ p1_len = 0

InitAppIdle ==
    /\ costed = EmptyGraph
    /\ hops = <<>>
    /\ selected_indices = <<>>
    /\ leg_i = 0
    /\ legs = <<>>
    /\ tri = <<>>
    /\ radius = 0

InitSimIdle ==
    /\ track = <<>>
    /\ spec = <<>>
    /\ run_t = 0
    /\ run_x = 0
    /\ run_v = 0
    /\ curr = 0
    /\ run_exit = ""

Init == InitBuild(RouteMaps) /\ InitRoute(Libraries) /\ InitSimIdle /\ InitAppIdle

Next ==
    \/ ResolveLineHeader
    \/ ResolvePoint
    \/ BuildLineEdges
    \/ FindOptimalRoute
    \/ AppRoute
    \/ Rerun

Spec == Init /\ [][Next]_vars

-----------------------------------------------------------------------------
(* 4. TrainSim                                                             *)
(*                                                                         *)
(* Units.  Speeds are in 1/100 km/h, positions in 1/720 m and times in     *)
(* 1/10 s, so that one step of dt = 0.5 s moves the train by               *)
(* v_ms * dt = (v / 3.6) * 0.5 m = v / 7.2 m, that is by v position units  *)
(* for a speed of v speed units.  acc and dec are in 1/100 km/h per        *)
(* second.  The planned speed of a sample is kept as its square, pattern2, *)
(* so the square root of the braking pass is never rounded: v > pattern is *)
(* v * v > pattern2.                                                       *)

\* position units of d metres
Metres(d) == d * 720

\* speed units of k km/h
Kmh(k) == k * 100

\* self.dt = 0.5, in time units
dt == 5

\* the safety cap 3600*10 seconds, in time units
TIME_CAP == 360000

\* _calc_brake_pattern: pattern[-1] = 0, and backwards
\* pattern[i] = min(sqrt(v_next^2 + 2 * max_dec * dd) * 3.6, limit[i]);
\* in the units above (v_allow)^2 = pattern2[i+1] + dec * dd
RECURSIVE BrakeFrom(_, _, _)
BrakeFrom(tr, dec, i) ==
    IF i < 1 THEN tr
    ELSE LET dd       == tr[i + 1].dist - tr[i].dist
             v_allow2 == tr[i + 1].pattern2 + dec * dd
             done     == [tr EXCEPT ![i].pattern2 =
                             Min2(v_allow2, tr[i].limit * tr[i].limit)]
         IN  CHOOSE r \in {BrakeFrom(t, dec, i - 1) : t \in {done}} : TRUE

calc_brake_pattern_limits(tr, dec) ==
    [i \in 1..Len(tr) |-> [tr[i] EXCEPT !.pattern2 = tr[i].limit * tr[i].limit]]

calc_brake_pattern(tr, dec) ==
    BrakeFrom([tr EXCEPT ![Len(tr)].pattern2 = 0], dec, Len(tr) - 1)

\* while curr < len(track)-1 and track[curr+1]['dist'] < x: curr += 1
\* (curr is 0-based as in the source; track[curr] is tr[curr + 1])
RECURSIVE AdvanceCurr(_, _, _)
AdvanceCurr(tr, c, pos) ==
    IF c < Len(tr) - 1 /\ tr[c + 2].dist < pos
    THEN AdvanceCurr(tr, c + 1, pos) ELSE c

\* the acceleration of one step: max_acc * ratio * dt, with ratio = 35/v above
\* 35 km/h and again * 100/v above 100 km/h, rounded down to the speed unit
AccelStep(vehicle, speed) ==
    LET full == vehicle.acc \div 2
        r35  == IF speed > Kmh(35) THEN (full * Kmh(35)) \div speed ELSE full
    IN  IF speed > Kmh(100) THEN (r35 * Kmh(100)) \div speed ELSE r35

\* the deceleration of one step: max_dec * dt
DecelStep(vehicle) == vehicle.dec \div 2

\* the speed after one step towards the target of the current sample
NextSpeed(vehicle, speed, tgt2) ==
    LET raw == IF speed * speed > tgt2 THEN speed - DecelStep(vehicle)
               ELSE IF speed * speed < tgt2 THEN speed + AccelStep(vehicle, speed)
               ELSE speed
    IN  IF raw < 0 THEN 0 ELSE raw

\* total = self.track[-1]['dist']
TotalDist(tr) == tr[Len(tr)].dist

\* TrainSim(track, spec): the constructor runs the braking pass
NewTrainSim ==
    /\ pc = "sim_new"
    /\ track' = calc_brake_pattern(track, spec.dec)
    /\ pc' = "run"
    /\ run_t' = 0
    /\ run_x' = 0
    /\ run_v' = 0
    /\ curr' = 0
    /\ run_exit' = ""
    /\ UNCHANGED spec
    /\ UNCHANGED <<map_data, line_idx, pt_idx, known_stations, station_id_map,
                   station_coords, all_line_names, line_stations_dict, G,
                   edge_details, G_built>>
    /\ UNCHANGED <<routeVars, appVars>>

Tick_none(t) == t

\* t += self.dt
Tick(t) == t + dt

\* one iteration of the loop of run
RunStep ==
    /\ pc = "run"
    /\ run_x < TotalDist(track)
    /\ run_t < TIME_CAP
    /\ LET c     == AdvanceCurr(track, curr, run_x)
           tgt2  == track[c + 1].pattern2
           v_new == NextSpeed(spec, run_v, tgt2)
           x_new == run_x + v_new
           stop  == x_new >= TotalDist(track) - Metres(2) /\ v_new < Kmh(1)
       IN  /\ curr' = c
           /\ run_v' = v_new
           /\ run_x' = x_new
           /\ run_t' = Tick(run_t)
           /\ run_exit' = IF stop THEN "break" ELSE ""
           /\ pc' = IF stop THEN "returned" ELSE "run"
    /\ UNCHANGED <<track, spec>>
    /\ UNCHANGED <<map_data, line_idx, pt_idx, known_stations, station_id_map,
                   station_coords, all_line_names, line_stations_dict, G,
                   edge_details, G_built>>
    /\ UNCHANGED <<routeVars, appVars>>

\* the loop condition fails: return t
RunReturn ==
    /\ pc = "run"
    /\ ~(run_x < TotalDist(track) /\ run_t < TIME_CAP)
    /\ run_exit' = IF run_x >= TotalDist(track) THEN "end" ELSE "cap"
    /\ pc' = "returned"
    /\ UNCHANGED <<track, spec, run_t, run_x, run_v, curr>>
    /\ UNCHANGED <<map_data, line_idx, pt_idx, known_stations, station_id_map,
                   station_coords, all_line_names, line_stations_dict, G,
                   edge_details, G_built>>
    /\ UNCHANGED <<routeVars, appVars>>

\* --- inputs of the simulation ---

\* vehicles of VEHICLE_DB: max_speed, acc, dec
Vehicle(max_speed, acc, dec) == [max_speed |-> max_speed, acc |-> acc, dec |-> dec]

Vehicles == {Vehicle(Kmh(110), 300, 400),   \* private-railway commuter car
             Vehicle(Kmh(60), 350, 500)}    \* tram / LRT

\* the window of resample_and_analyze: the first and last w samples get no
\* curvature limit (R = 9999, and curve_factor * sqrt(9999) exceeds max_speed
\* for these vehicles)
w == 3

\* interval of resample_and_analyze, metres
INTERVAL == 25

\* the floor of the speed ceiling, km/h
MIN_LIMIT == 25

MaxSamples == 8

\* the tracks the sampler hands over: samples every INTERVAL metres, ceiling
\* max_speed in the end windows and between MIN_LIMIT and max_speed elsewhere
Tracks(vehicle) ==
    UNION {
        {[i \in 1..n |-> [dist |-> Metres(INTERVAL) * (i - 1), limit |-> lim[i],
                          pattern2 |-> 0]] :
            lim \in {l \in [1..n -> {Kmh(MIN_LIMIT), vehicle.max_speed}] :
                        \A i \in 1..n : (i <= w \/ i > n - w) => l[i] = vehicle.max_speed}} :
        n \in 1..MaxSamples}

NetIdle ==
    /\ map_data = <<>>
    /\ line_idx = 0
    /\ pt_idx = -1
    /\ known_stations = <<>>
    /\ station_id_map = EmptyMap
    /\ station_coords = EmptyMap
    /\ all_line_names = <<>>
    /\ line_stations_dict = EmptyMap
    /\ G = EmptyGraph
    /\ edge_details = <<>>
    /\ G_built = EmptyGraph

InitSim ==
    /\ pc = "sim_new"
    /\ spec \in Vehicles
    /\ track \in Tracks(spec)
    /\ run_t = 0
    /\ run_x = 0
    /\ run_v = 0
    /\ curr = 0
    /\ run_exit = ""
    /\ NetIdle
    /\ InitRoute({"dijkstra"})
    /\ InitAppIdle

NextSim == NewTrainSim \/ RunStep \/ RunReturn

SpecSim == InitSim /\ [][NextSim]_vars

\* the first pass over a wider family of station labels and positions:
\* label a on spots 500 m apart, label b, on two lines, the second active or
\* planned
BuildPoints == {Stn("a", 0), Stn("a", 500), Stn("a", 1000), Stn("b", 0)}

BuildMaps ==
    {<<ActiveLine("L", l), [type |-> ty, name |-> <<"M">>, point |-> m]>> :
        l \in DistinctSeqs(BuildPoints, 1, MaxPts),
        m \in DistinctSeqs(BuildPoints, 1, MaxPts),
        ty \in {0, 1}}

InitBuildOnly ==
    InitBuild(BuildMaps) /\ InitRoute({"dijkstra"}) /\ InitSimIdle /\ InitAppIdle

NextBuild == ResolveLineHeader \/ ResolvePoint \/ BuildLineEdges

SpecBuild == InitBuildOnly /\ [][NextBuild]_vars

-----------------------------------------------------------------------------
(* Properties                                                              *)

Routed == pc = "routed"

Returned == Routed /\ outcome = "route"

\* C1: a request with origin = destination and no via-station is rejected:
\* route selection never returns a path for it.
C1_SameStationRejected ==
    (Routed /\ req.via_st = <<>> /\ req.dept_st = req.dest_st) => outcome # "route"

\* C2: route selection never mutates the base network: in every state after
\* the build, whatever calls were made, G is the network build_network
\* returned, and the outcome of the last call is the outcome of that call on
\* the network as built (what a first call with these arguments returns).
C2_BaseNetworkUnchanged ==
    /\ pc \in {"built", "routed"} => G = G_built
    /\ (Routed /\ req.fn = "core") =>
          LET first == find_optimal_route(<<G_built>>, req.dept_st, req.dest_st,
                           req.via_st, req.avoid_lines, req.prioritize_lines,
                           req.avoid_revisit, lib)
          IN  outcome = first.outcome /\ route = first.route

\* a no-repeat via request with an avoided and a preferred line has returned a
\* route of at least three stations
C2_Witness ==
    /\ Returned
    /\ req.fn = "core"
    /\ req.via_st # <<>>
    /\ req.avoid_revisit
    /\ req.avoid_lines # {}
    /\ req.prioritize_lines # {}
    /\ Len(route) >= 3
    /\ G = G_built
    /\ Len(G.edges) >= 2

\* --- station identity resolution ---

\* the station points resolved so far, as (line_idx, pt_idx)
Occurrences == DOMAIN station_id_map

PointAt(o) == map_data[o[1] + 1].point[o[2] + 1]

LabelOf(o) == RawName(PointAt(o), o[1], o[2])

Near(p, q) == hubeny_distance(p, q) < SAME_STATION_THRESHOLD

\* C3 as claimed: in the built network any two station points with the same
\* raw label have the same identity if and only if they are closer than the
\* proximity threshold.
C3_MergeIffNear ==
    pc = "built" =>
        \A o1, o2 \in Occurrences :
            LabelOf(o1) = LabelOf(o2) =>
                (station_id_map[o1] = station_id_map[o2]
                    <=> Near(PointAt(o1).pos, PointAt(o2).pos))

\* C3 as amended: every station point has the identity of the first entry of
\* its label, in creation order, whose recorded coordinate (that of the
\* station point that established the entry) is closer than the threshold;
\* it established a new entry exactly when no earlier entry was that close.
\* Hence the recorded coordinates of two entries of one label are at least
\* the threshold apart, and two station points of a label share an identity
\* if and only if the same entry is the first one within the threshold of
\* both: their own distance does not decide it.
C3_MergeWithFirstEntryInRange ==
    /\ \A o \in Occurrences :
          LET entries == EntriesOf(known_stations, LabelOf(o))
              mine    == {k \in 1..Len(entries) : entries[k].id = station_id_map[o]}
          IN  /\ Cardinality(mine) = 1
              /\ \A k \in mine :
                    /\ Near(PointAt(o).pos, entries[k].coords)
                    /\ \A j \in 1..(k - 1) : ~Near(PointAt(o).pos, entries[j].coords)
    /\ \A i, j \in 1..Len(known_stations) :
          (i # j /\ known_stations[i].raw_name = known_stations[j].raw_name)
              => ~Near(known_stations[i].coords, known_stations[j].coords)

\* a built network in which two station points of one label are closer than
\* the threshold and yet have different identities
C3_Witness ==
    /\ pc = "built"
    /\ \E o1, o2 \in Occurrences :
          /\ LabelOf(o1) = LabelOf(o2)
          /\ Near(PointAt(o1).pos, PointAt(o2).pos)
          /\ station_id_map[o1] # station_id_map[o2]

\* --- routes: the cost model and the paths of the network as built ---

BaseEdges == 1..Len(G_built.edges)

EdgePair(i) == {G_built.edges[i].u, G_built.edges[i].v}

\* the hops of a station list, as unordered station pairs
Hops(path) == {{path[i], path[i + 1]} : i \in 1..(Len(path) - 1)}

\* the cost of edge i for the last request: base weight x10 if its line is
\* avoided, x0.2 if preferred, and x10000 if it joins a penalised pair
EdgeCost(i, penalised) ==
    LET e    == G_built.edges[i]
        pref == IF e.line_name \in req.avoid_lines THEN e.weight * 10
                ELSE IF e.line_name \in req.prioritize_lines THEN e.weight \div 5
                ELSE e.weight
    IN  IF EdgePair(i) \in penalised THEN pref * 10000 ELSE pref

\* the station lists without repetition, over the nodes of the network
StationLists ==
    {q \in UNION {[1..n -> NodesOf(G_built)] : n \in 1..Cardinality(NodesOf(G_built))} :
        \A i, j \in 1..Len(q) : i # j => q[i] # q[j]}

\* the paths from s to t all of whose hops have an edge in E
PathsOver(E, s, t) ==
    {q \in StationLists :
        /\ q[1] = s
        /\ q[Len(q)] = t
        /\ \A h \in Hops(q) : \E i \in E : EdgePair(i) = h}

\* the cost of a path that takes the cheapest edge of E on every hop
RECURSIVE CostOver(_, _, _)
CostOver(E, q, penalised) ==
    IF Len(q) < 2 THEN 0
    ELSE SetMin({EdgeCost(i, penalised) : i \in {j \in E : EdgePair(j) = {q[1], q[2]}}})
         + CostOver(E, Tail(q), penalised)

\* the parts of the returned route: the whole route, or outbound and return
\* part with the station pairs penalised when the part was computed
OutboundPart == SubSeq(route, 1, p1_len)

ReturnPart == SubSeq(route, p1_len, Len(route))

Parts ==
    IF req.via_st = <<>>
    THEN {[path |-> route, penalised |-> {}]}
    ELSE {[path |-> OutboundPart, penalised |-> {}],
          [path |-> ReturnPart,
           penalised |-> IF req.avoid_revisit THEN Hops(OutboundPart) ELSE {}]}

\* the lines attributed to the hops of a station list
LinesUsed(path) ==
    LET hl == HopLines(edge_details, path, req.avoid_lines, req.prioritize_lines)
    IN  {hl[i][1] : i \in {j \in 1..Len(hl) : hl[j] # <<>>}}

\* the edges that are not of line l
EdgesOffLine(l) == {i \in BaseEdges : G_built.edges[i].line_name # l}

\* C4 as claimed: a returned route does not use an avoided line on any hop
\* whenever every part of the request has a path with no edge of that line.
C4_AvoidedLineNotUsed ==
    Returned =>
        \A l \in req.avoid_lines :
            (\A part \in Parts :
                PathsOver(EdgesOffLine(l), part.path[1], Last(part.path)) # {})
            => l \notin LinesUsed(route)

\* C4 as amended: avoiding a line multiplies the cost of its edges by 10 and
\* the route is a cheapest path under these costs.  A part of a returned route
\* uses an avoided line on a hop only if no path between the same two
\* stations without an edge of that line is cheaper than the part; whenever
\* such a path is cheaper than every path that uses the line, the line is not
\* used.
C4_AvoidedLineOnlyIfNotDearer ==
    Returned =>
        \A l \in req.avoid_lines : \A part \in Parts :
            l \in LinesUsed(part.path) =>
                \A q \in PathsOver(EdgesOffLine(l), part.path[1], Last(part.path)) :
                    CostOver(EdgesOffLine(l), q, part.penalised)
                        >= CostOver(BaseEdges, part.path, part.penalised)

\* a direct route uses the avoided line on a hop of positive length although
\* a path without an edge of that line exists
C4_Witness ==
    /\ Returned
    /\ req.via_st = <<>>
    /\ Len(route) >= 2
    /\ \E l \in req.avoid_lines :
          /\ l \in LinesUsed(route)
          /\ PathsOver(EdgesOffLine(l), route[1], Last(route)) # {}
          /\ CostOver(BaseEdges, route, {}) > 0

\* the edges that join no station pair of the outbound part
EdgesOffOutbound == {i \in BaseEdges : EdgePair(i) \notin Hops(OutboundPart)}

NoRepeatReturned ==
    Returned /\ req.fn = "core" /\ req.via_st # <<>> /\ req.avoid_revisit

\* C5 as claimed: with a via-station and no-repeat routing, the return part
\* reuses no hop of the outbound part whenever some path from the via-station
\* to the destination avoids every outbound hop.
C5_ReturnAvoidsOutbound ==
    NoRepeatReturned =>
        (PathsOver(EdgesOffOutbound, req.via_st[1], req.dest_st) # {}
            => Hops(ReturnPart) \cap Hops(OutboundPart) = {})

\* C5 as amended: no-repeat routing multiplies the cost of every edge between
\* the two stations of an outbound hop by 10000 and the return part is a
\* cheapest path under these costs.  The return part reuses an outbound hop
\* only if no path from the via-station to the destination that avoids every
\* outbound hop is cheaper than it under the penalised costs.
C5_ReturnReusesOnlyIfNotDearer ==
    NoRepeatReturned =>
        (Hops(ReturnPart) \cap Hops(OutboundPart) # {} =>
            \A q \in PathsOver(EdgesOffOutbound, req.via_st[1], req.dest_st) :
                CostOver(EdgesOffOutbound, q, Hops(OutboundPart))
                    >= CostOver(BaseEdges, ReturnPart, Hops(OutboundPart)))

\* a no-repeat request whose return part reuses an outbound hop although a
\* path that avoids the outbound hops exists
C5_Witness ==
    /\ NoRepeatReturned
    /\ Hops(ReturnPart) \cap Hops(OutboundPart) # {}
    /\ PathsOver(EdgesOffOutbound, req.via_st[1], req.dest_st) # {}

\* a path joins s and t in the network as built
Connected(s, t) == PathsOver(BaseEdges, s, t) # {}

\* the parts of the last request as station pairs
RequestParts ==
    IF req.via_st = <<>> THEN {<<req.dept_st, req.dest_st>>}
    ELSE {<<req.dept_st, req.via_st[1]>>, <<req.via_st[1], req.dest_st>>}

\* C6: find_optimal_route reports not-found and raises nothing whenever a
\* part of the request has no path, and a returned route had a path for
\* every part.
C6_NoPathIsNotFound ==
    (Routed /\ req.fn = "core") =>
        /\ outcome # "raised"
        /\ (\E part \in RequestParts : ~Connected(part[1], part[2]))
              => outcome = "not_found"
        /\ outcome = "route" => \A part \in RequestParts : Connected(part[1], part[2])

\* C7: a returned route of a via request starts at the origin, ends at the
\* destination, has the via-station at the junction of its two parts, names
\* no station twice in a row, and every two consecutive stations are joined
\* by an edge of the base network.
C7_ViaRouteWellFormed ==
    (Returned /\ req.via_st # <<>>) =>
        /\ Len(route) >= 1
        /\ route[1] = req.dept_st
        /\ Last(route) = req.dest_st
        /\ p1_len \in 1..Len(route)
        /\ route[p1_len] = req.via_st[1]
        /\ \A i \in 1..(Len(route) - 1) :
              /\ route[i] # route[i + 1]
              /\ HasEdge(G_built, route[i], route[i + 1])

\* via requests returned a route with the via-station at the origin
C7_Witness ==
    /\ Returned
    /\ req.via_st = <<req.dept_st>>
    /\ req.dest_st # req.dept_st
    /\ Len(route) >= 2

\* --- the simulation ---

Planned == pc \in {"run", "returned"}

\* C8: after the braking pass the planned speed of the terminal sample is 0,
\* the planned speed of every sample is at most its ceiling, and the planned
\* speed of the next sample is reachable from every sample by braking at the
\* deceleration limit: pattern[i]^2 <= pattern[i+1]^2 + 2*dec*(dist[i+1]-dist[i]).
C8_BrakePatternFeasible ==
    Planned =>
        /\ track[Len(track)].pattern2 = 0
        /\ \A i \in 1..Len(track) :
              track[i].pattern2 <= track[i].limit * track[i].limit
        /\ \A i \in 1..(Len(track) - 1) :
              track[i].pattern2 <=
                  track[i + 1].pattern2 + spec.dec * (track[i + 1].dist - track[i].dist)

\* a planned track with a curve in the middle: braking lowers the planned
\* speed of one sample below its ceiling and leaves another at its ceiling
C8_Witness ==
    /\ Planned
    /\ Len(track) >= 2 * w + 1
    /\ \E i \in 1..Len(track) : track[i].limit < spec.max_speed
    /\ \E i \in 1..(Len(track) - 1) :
          /\ track[i].pattern2 > 0
          /\ track[i].pattern2 < track[i].limit * track[i].limit
    /\ \E i \in 1..Len(track) :
          track[i].pattern2 = track[i].limit * track[i].limit

\* the samples on both sides of the train: track[curr] and track[curr+1]
SectionLow == track[AdvanceCurr(track, curr, run_x) + 1]

SectionHigh == track[Min2(AdvanceCurr(track, curr, run_x) + 2, Len(track))]

\* C9: at every step of run the speed of the train is at most the ceiling of
\* the track section the train is in (here: the larger of the ceilings of the
\* two samples that bound the section).
C9_SpeedWithinCeiling ==
    Planned => run_v <= Max2(SectionLow.limit, SectionHigh.limit)

\* C10: when run ends because the train reached the end of the leg, not
\* because of the time cap, the speed of the train is below 1 km/h.
C10_StoppedAtEnd ==
    (pc = "returned" /\ run_exit \in {"end", "break"}) => run_v < Kmh(1)

\* --- termination of run ---

\* vehicle specs outside VEHICLE_DB: no acceleration, no deceleration
DegenerateVehicles == {Vehicle(Kmh(60), 0, 500), Vehicle(Kmh(60), 350, 0)}

\* every vehicle of the data base on every track, and the degenerate vehicles
\* on the tracks of one and two samples
InitSimAll ==
    /\ pc = "sim_new"
    /\ \/ spec \in Vehicles /\ track \in Tracks(spec)
       \/ spec \in DegenerateVehicles /\ track \in {tr \in Tracks(spec) : Len(tr) <= 2}
    /\ run_t = 0
    /\ run_x = 0
    /\ run_v = 0
    /\ curr = 0
    /\ run_exit = ""
    /\ NetIdle
    /\ InitRoute({"dijkstra"})
    /\ InitAppIdle

\* the interpreter keeps executing the loop: a step that can be taken is taken
SpecSimFair == InitSimAll /\ [][NextSim]_vars /\ WF_vars(NextSim)

-----------------------------------------------------------------------------
(* 5. calculate_radius                                                     *)

\* Points of the plane are pairs of integers on a grid whose step is unit
\* decimetres; radii are in decimetres.  For a triangle with squared sides
\* A, B, C and twice the area `cross`, Heron's val = s(s-a)(s-b)(s-c) is
\* the squared area cross^2 / 4 and R = abc / (4 * area) is
\* sqrt(A*B*C) / (2 * cross).

\* the largest r with r * r <= n
RECURSIVE IsqrtBetween(_, _, _)
IsqrtBetween(n, lo, hi) ==
    IF lo >= hi THEN lo
    ELSE LET mid == (lo + hi + 1) \div 2
         IN  IF mid * mid <= n THEN IsqrtBetween(n, mid, hi)
             ELSE IsqrtBetween(n, lo, mid - 1)

Isqrt(n) == IsqrtBetween(n, 0, Min2(n, 46340))

SquaredSide(p, q) == (p[1] - q[1]) * (p[1] - q[1]) + (p[2] - q[2]) * (p[2] - q[2])

\* twice the area of the triangle, in grid units
Cross(p1, p2, p3) ==
    LET c == (p2[1] - p1[1]) * (p3[2] - p1[2]) - (p2[2] - p1[2]) * (p3[1] - p1[1])
    IN  IF c >= 0 THEN c ELSE 0 - c

\* return 9999.0, in decimetres
R_STRAIGHT == 99990

\* min(R, 6000.0), in decimetres
R_CAP == 60000

\* val <= 0
HeronNonPositive(p1, p2, p3) == Cross(p1, p2, p3) = 0

\* area < 0.01 square metres: cross * unit^2 / 2 square decimetres < 1
AreaBelowEpsilon(p1, p2, p3, unit) == Cross(p1, p2, p3) * unit * unit < 2

\* R = (a*b*c) / (4*area)
Circumradius(p1, p2, p3, unit) ==
    (Isqrt(SquaredSide(p1, p2) * SquaredSide(p2, p3) * SquaredSide(p3, p1)) * unit)
        \div (2 * Cross(p1, p2, p3))

calculate_radius(p1, p2, p3, unit) ==
    IF HeronNonPositive(p1, p2, p3) THEN R_STRAIGHT
    ELSE IF AreaBelowEpsilon(p1, p2, p3, unit) THEN R_STRAIGHT
    ELSE Min2(Circumradius(p1, p2, p3, unit), R_CAP)

\* a call of calculate_radius
CalculateRadius ==
    /\ pc = "radius_call"
    /\ radius' = calculate_radius(tri.p1, tri.p2, tri.p3, tri.unit)
    /\ pc' = "radius_done"
    /\ UNCHANGED <<map_data, line_idx, pt_idx, known_stations, station_id_map,
                   station_coords, all_line_names, line_stations_dict, G,
                   edge_details, G_built>>
    /\ UNCHANGED <<routeVars, simVars, costed, hops, planVars, tri>>

\* grid points: a small triangle, and a long flat one
RadiusPoints == {<<0, 0>>, <<1, 0>>, <<0, 1>>, <<2, 0>>, <<11, 1>>, <<22, 0>>}

\* grid steps of one decimetre and of one hundred metres
RadiusUnits == {1, 1000}

Triangles ==
    {[p1 |-> a, p2 |-> b, p3 |-> c, unit |-> u] :
        a \in RadiusPoints, b \in RadiusPoints, c \in RadiusPoints, u \in RadiusUnits}

InitRadius ==
    /\ pc = "radius_call"
    /\ tri \in Triangles
    /\ radius = 0
    /\ costed = EmptyGraph
    /\ hops = <<>>
    /\ selected_indices = <<>>
    /\ leg_i = 0
    /\ legs = <<>>
    /\ NetIdle
    /\ InitRoute({"dijkstra"})
    /\ InitSimIdle

SpecRadius == InitRadius /\ [][CalculateRadius]_vars

RadiusDone == pc = "radius_done"

\* the triangle has no area, or an area below the epsilon
Degenerate == \/ HeronNonPositive(tri.p1, tri.p2, tri.p3)
              \/ AreaBelowEpsilon(tri.p1, tri.p2, tri.p3, tri.unit)

\* C13: calculate_radius never returns more than the cap of 6000 m nor a
\* negative value: it returns exactly 6000 m when the Heron product is not
\* positive or the area is below the epsilon, and min(R, 6000 m) otherwise.
C13_RadiusWithinCap ==
    RadiusDone =>
        /\ radius >= 0
        /\ radius <= R_CAP
        /\ Degenerate => radius = R_CAP
        /\ ~Degenerate =>
              radius = Min2(Circumradius(tri.p1, tri.p2, tri.p3, tri.unit), R_CAP)

-----------------------------------------------------------------------------
(* 6. The simulation run of app.py                                         *)

\* spec['curve_factor'] of VEHICLE_DB, in tenths
curve_factor(vehicle) == IF vehicle.max_speed = Kmh(110) THEN 42 ELSE 50

\* np.interp(d, cum_dist, positions): the point of the polyline at distance d
\* from its start (the last point beyond its end)
RECURSIVE InterpAt(_, _)
InterpAt(points, d) ==
    IF Len(points) < 2 THEN points[1]
    ELSE LET seg == hubeny_distance(points[1], points[2])
         IN  IF d <= seg
             THEN IF points[2] >= points[1] THEN points[1] + d ELSE points[1] - d
             ELSE InterpAt(Tail(points), d - seg)

\* len(np.arange(0, total, interval)): the multiples of interval below total
ArangeLen(total, interval) == (total + interval - 1) \div interval

\* limit = max(25.0, min(spec['max_speed'], curve_factor * sqrt(R))), with R in
\* decimetres and the limit in speed units
LimitOf(R, vehicle) ==
    Max2(Kmh(MIN_LIMIT), Min2(vehicle.max_speed, curve_factor(vehicle) * Isqrt(R * 10)))

\* resample_and_analyze(points, spec): points are positions in metres
resample_and_analyze(points, vehicle) ==
    IF Len(points) < 2 THEN <<>>
    ELSE LET total == PolylineLength(points)
             n     == ArangeLen(total, INTERVAL)
             at(i) == InterpAt(points, INTERVAL * (i - 1))
             R(i)  == IF i - 1 < w \/ i - 1 >= n - w THEN R_STRAIGHT
                      ELSE calculate_radius(<<at(i - w), 0>>, <<at(i), 0>>,
                                            <<at(i + w), 0>>, 10)
         IN  IF total = 0 THEN <<>>
             ELSE [i \in 1..n |-> [dist |-> Metres(INTERVAL) * (i - 1),
                                   limit |-> LimitOf(R(i), vehicle),
                                   pattern2 |-> 0]]

\* TrainSim.run as one call: the loop from the state (t, x, v, curr) on
RECURSIVE RunFrom(_, _, _, _, _, _)
RunFrom(tr, vehicle, t, x, v, c) ==
    IF ~(x < TotalDist(tr) /\ t < TIME_CAP)
    THEN [t |-> t, x |-> x, v |-> v, curr |-> c,
          exit |-> IF x >= TotalDist(tr) THEN "end" ELSE "cap"]
    ELSE LET c2    == AdvanceCurr(tr, c, x)
             v_new == NextSpeed(vehicle, v, tr[c2 + 1].pattern2)
             x_new == x + v_new
         IN  IF x_new >= TotalDist(tr) - Metres(2) /\ v_new < Kmh(1)
             THEN [t |-> Tick(t), x |-> x_new, v |-> v_new, curr |-> c2, exit |-> "break"]
             ELSE RunFrom(tr, vehicle, Tick(t), x_new, v_new, c2)

run(tr, vehicle) == RunFrom(tr, vehicle, 0, 0, 0, 0)

\* the indices of a set in increasing order: the checkboxes are read top down
RECURSIVE Ascending(_)
Ascending(S) ==
    IF S = {} THEN <<>>
    ELSE LET m == CHOOSE a \in S : \A b \in S : a <= b
         IN  <<m>> \o Ascending(S \ {m})

sort_none(q) == q

\* list.sort()
RECURSIVE sort(_)
sort(q) ==
    IF Len(q) = 0 THEN <<>>
    ELSE LET i == CHOOSE a \in 1..Len(q) : \A b \in 1..Len(q) : q[a] <= q[b]
         IN  <<q[i]>> \o sort(SubSeq(q, 1, i - 1) \o SubSeq(q, i + 1, Len(q)))

\* if 0 not in selected_indices: append(0); if last_idx not in ...: append(last_idx)
WithEnds(checked, last_idx) ==
    LET a == IF 0 \in Range(checked) THEN checked ELSE Append(checked, 0)
    IN  IF last_idx \in Range(a) THEN a ELSE Append(a, last_idx)

\* combined_points of the hops of a leg: the first polyline whole, every
\* further one without its first point
RECURSIVE Combined(_)
Combined(hs) ==
    IF Len(hs) = 0 THEN <<>>
    ELSE LET before == Combined(SubSeq(hs, 1, Len(hs) - 1))
         IN  IF before # <<>> THEN before \o Tail(Last(hs).pts) ELSE Last(hs).pts

\* the button "run simulation": the checked stations become the stop plan
SimButton ==
    /\ pc = "routed"
    /\ req.fn = "app"
    /\ outcome = "route"
    /\ \E checked \in SUBSET (0..(Len(route) - 1)), vehicle \in Vehicles :
          LET plan == sort(WithEnds(Ascending(checked), Len(route) - 1))
          IN  /\ selected_indices' = plan
              /\ spec' = vehicle
              /\ pc' = IF Len(plan) < 2 THEN "plan_rejected" ELSE "legs"
    /\ leg_i' = 0
    /\ legs' = <<>>
    /\ UNCHANGED <<map_data, line_idx, pt_idx, known_stations, station_id_map,
                   station_coords, all_line_names, line_stations_dict, G,
                   edge_details, G_built>>
    /\ UNCHANGED <<routeVars, costed, hops, geoVars>>
    /\ UNCHANGED <<track, run_t, run_x, run_v, curr, run_exit>>

\* one iteration of the loop over the legs: stitch the geometry, resample it,
\* run the train, append the result row (no row for an empty track)
SimulateLeg ==
    /\ pc = "legs"
    /\ leg_i < Len(selected_indices) - 1
    /\ LET idx_start == selected_indices[leg_i + 1]
           idx_end   == selected_indices[leg_i + 2]
           segment_nodes == SubSeq(route, idx_start + 1, idx_end + 1)
           hs == Attribution(edge_details, station_coords, segment_nodes,
                             req.avoid_lines, req.prioritize_lines)
           combined_points == Combined(hs)
           tr0 == resample_and_analyze(combined_points, spec)
       IN  IF tr0 = <<>>
           THEN /\ legs' = Append(legs, [idx_start |-> idx_start, idx_end |-> idx_end,
                                         hops |-> hs, combined_points |-> combined_points,
                                         row |-> FALSE, dist |-> 0, run_sec |-> 0])
                /\ UNCHANGED <<track, run_t, run_x, run_v, curr, run_exit>>
           ELSE \E sim \in {calc_brake_pattern(tr0, spec.dec)} :
                \E res \in {run(sim, spec)} :
                    /\ track' = sim
                    /\ run_t' = res.t
                    /\ run_x' = res.x
                    /\ run_v' = res.v
                    /\ curr' = res.curr
                    /\ run_exit' = res.exit
                    /\ legs' = Append(legs, [idx_start |-> idx_start, idx_end |-> idx_end,
                                             hops |-> hs,
                                             combined_points |-> combined_points,
                                             row |-> TRUE, dist |-> TotalDist(sim),
                                             run_sec |-> res.t])
    /\ leg_i' = leg_i + 1
    /\ UNCHANGED <<pc, spec, selected_indices>>
    /\ UNCHANGED <<map_data, line_idx, pt_idx, known_stations, station_id_map,
                   station_coords, all_line_names, line_stations_dict, G,
                   edge_details, G_built>>
    /\ UNCHANGED <<routeVars, costed, hops, geoVars>>

\* the loop over the legs is over: the result table is shown
SimDone ==
    /\ pc = "legs"
    /\ leg_i >= Len(selected_indices) - 1
    /\ pc' = "sim_done"
    /\ UNCHANGED <<map_data, line_idx, pt_idx, known_stations, station_id_map,
                   station_coords, all_line_names, line_stations_dict, G,
                   edge_details, G_built>>
    /\ UNCHANGED <<routeVars, simVars, appVars>>

\* --- inputs of the simulation run ---

\* station points a few dozen metres apart: label a on two spots that merge
AppPoints == {Stn("a", 60), Stn("b", 40), Stn("c", 100)}

\* line L from a (recorded at 0) to c, line M over two to MaxPts of the
\* points above in any order
AppMaps ==
    {<<ActiveLine("L", <<Stn("a", 0), Stn("c", 100)>>), ActiveLine("M", m)>> :
        m \in DistinctSeqs(AppPoints, 2, MaxPts)}

InitApp ==
    InitBuild(AppMaps) /\ InitRoute(Libraries) /\ InitSimIdle /\ InitAppIdle

NextApp ==
    \/ ResolveLineHeader
    \/ ResolvePoint
    \/ BuildLineEdges
    \/ AppRoute
    \/ SimButton
    \/ SimulateLeg
    \/ SimDone

SpecApp == InitApp /\ [][NextApp]_vars

\* --- the stop plan and the legs ---

PlanMade == pc \in {"plan_rejected", "legs", "sim_done"}

\* C12: whatever stations are checked, the stop plan simulated is a strictly
\* increasing list of route indices from 0 to the last route index, each
\* simulated leg runs from one element of the list to the next, and the plan
\* of a one-station route is rejected without simulating.
C12_StopPlanWellFormed ==
    PlanMade =>
        /\ Len(selected_indices) >= 1
        /\ selected_indices[1] = 0
        /\ Last(selected_indices) = Len(route) - 1
        /\ \A i \in 1..(Len(selected_indices) - 1) :
              selected_indices[i] < selected_indices[i + 1]
        /\ \A k \in 1..Len(legs) :
              /\ legs[k].idx_start = selected_indices[k]
              /\ legs[k].idx_end = selected_indices[k + 1]
        /\ pc = "sim_done" => Len(legs) = Len(selected_indices) - 1
        /\ (pc = "plan_rejected") <=> (Len(route) = 1)
        /\ pc = "plan_rejected" => legs = <<>>

\* a route of three stations or more with only an intermediate station
\* checked has been simulated in two legs or more
C12_Witness ==
    /\ pc = "sim_done"
    /\ Len(route) >= 3
    /\ Len(selected_indices) = 3
    /\ Len(legs) = 2
    /\ legs[1].idx_end = 1

\* a station point of the named line, at pos, resolved to identity id
EndOf(line_name, id, pos) ==
    \E li \in 1..Len(map_data) : \E pi \in 1..Len(map_data[li].point) :
        /\ ~IsPlanned(map_data[li])
        /\ LineNameEdges(map_data[li]) = line_name
        /\ Has(station_id_map, <<li - 1, pi - 1>>)
        /\ station_id_map[<<li - 1, pi - 1>>] = id
        /\ map_data[li].point[pi].pos = pos

\* C16: in the stitched geometry of a leg every hop's polyline runs from the
\* hop's departure station to its arrival station, and consecutive hops
\* connect: the first point of a hop's polyline is the last point of the hop
\* before it.
C16_HopsOrientedAndContinuous ==
    \A k \in 1..Len(legs) :
        /\ \A j \in 1..Len(legs[k].hops) :
              LET h == legs[k].hops[j]
              IN  /\ EndOf(h.line, h.u, h.pts[1])
                  /\ EndOf(h.line, h.v, Last(h.pts))
        /\ \A j \in 1..(Len(legs[k].hops) - 1) :
              legs[k].hops[j + 1].pts[1] = Last(legs[k].hops[j].pts)

\* C20: for every leg whose stitched polyline has positive length a result
\* row is made, the distance the train has to cover and the distance of the
\* row are the length of the polyline, and the leg does not get distance 0
\* and running time 0.
C20_LegDistanceIsPolylineLength ==
    \A k \in 1..Len(legs) :
        PolylineLength(legs[k].combined_points) > 0 =>
            /\ legs[k].row
            /\ legs[k].dist = Metres(PolylineLength(legs[k].combined_points))
            /\ ~(legs[k].dist = 0 /\ legs[k].run_sec = 0)

\* --- build_network over labels and line names that collide ---

\* label a on two spots too far apart to merge, and a label that reads like
\* the identity minted for the second a of line M
NamePoints == {Stn("a", 0), Stn("a", 2000), Stn("a (M)", 500)}

\* two lines, each named M or without a name, the second active or planned
NameMaps ==
    {<<[type |-> 0, name |-> n1, point |-> l], [type |-> ty, name |-> n2, point |-> m]>> :
        n1 \in {<<"M">>, <<>>}, n2 \in {<<"M">>, <<>>}, ty \in {0, 1},
        l \in DistinctSeqs(NamePoints, 1, MaxPts),
        m \in DistinctSeqs(NamePoints, 1, MaxPts)}

InitNames ==
    InitBuild(NameMaps) /\ InitRoute({"dijkstra"}) /\ InitSimIdle /\ InitAppIdle

SpecNames == InitNames /\ [][NextBuild]_vars

\* C14: the identities minted are pairwise different, across all raw labels,
\* and the station-to-coordinate map holds for each identity the coordinate
\* of the occurrence that established it: no later station point changed it.
C14_IdentitiesUniqueCoordsKept ==
    /\ \A i, j \in 1..Len(known_stations) :
          i # j => known_stations[i].id # known_stations[j].id
    /\ \A i \in 1..Len(known_stations) :
          /\ Has(station_coords, known_stations[i].id)
          /\ station_coords[known_stations[i].id] = known_stations[i].coords

\* the active lines of the input, as indices from 0
ActiveLines == {li \in 0..(Len(map_data) - 1) : ~IsPlanned(map_data[li + 1])}

\* the ordered station identities of line li
StationIdsOf(li) ==
    LET line_stations == LineStations(li)
    IN  [i \in 1..Len(line_stations) |-> line_stations[i].id]

\* C19: in the output of build_network the active-line list and the per-line
\* station map have the same names, every edge's line name is in the list,
\* and the station list under a name is the ordered station identities of
\* the line with that name, also for lines without a name and for two active
\* lines sharing a name.
C19_LineNamesAndStationListsAgree ==
    pc = "built" =>
        /\ Range(all_line_names) = DOMAIN line_stations_dict
        /\ \A i \in 1..Len(G.edges) : G.edges[i].line_name \in Range(all_line_names)
        /\ \A i \in 1..Len(edge_details) :
              edge_details[i].line_name \in Range(all_line_names)
        /\ \A li \in ActiveLines :
              LET line_name == LineNameResolve(map_data[li + 1], li)
              IN  /\ Has(line_stations_dict, line_name)
                  /\ line_stations_dict[line_name] = StationIdsOf(li)

\* C15: for every edge record of the built network the first point of the
\* polyline is the coordinate recorded for one of the edge's two stations
\* and the last point the coordinate recorded for the other, also for
\* stations merged from several occurrences.
C15_PolylineEndsAtStationCoords ==
    pc = "built" =>
        \A i \in 1..Len(edge_details) :
            LET e == edge_details[i]
            IN  \E u, v \in e.key :
                    /\ e.key = {u, v}
                    /\ e.points[1] = station_coords[u]
                    /\ Last(e.points) = station_coords[v]

\* --- per-hop line attribution against the costed network ---

RECURSIVE SumCosts(_)
SumCosts(hs) == IF Len(hs) = 0 THEN 0 ELSE hs[1].cost + SumCosts(Tail(hs))

\* the cost in the costed network of the path that route selection found
FoundCost ==
    IF req.via_st = <<>> THEN PathCost(costed, route)
    ELSE PathCost(costed, OutboundPart) + PathCost(costed, ReturnPart)

\* the preference-adjusted cost of an edge record for the last request
AdjustedCost(e) ==
    AdjustedWeight(e.weight, e.line_name, req.avoid_lines, req.prioritize_lines)

\* the edge records between two stations
RecordsBetween(u, v) ==
    {edge_details[i] : i \in {j \in 1..Len(edge_details) : edge_details[j].key = {u, v}}}

\* the place of a line in the input: the index of the first active line of
\* that name
InputOrder(line_name) ==
    CHOOSE li \in ActiveLines :
        /\ LineNameEdges(map_data[li + 1]) = line_name
        /\ \A lj \in ActiveLines :
              LineNameEdges(map_data[lj + 1]) = line_name => li <= lj

\* C17: for every consecutive station pair of a route computed in the app
\* the attribution picks, among the edge records between the two stations,
\* a line of smallest preference-adjusted cost, the first such line in input
\* order, at the cost the costed network has between the two stations; the
\* attributed costs sum up to the cost of the path found, and no path
\* between the stations of a part is cheaper.
C17_AttributionMatchesSearch ==
    (Returned /\ req.fn = "app") =>
        /\ Len(hops) = Len(route) - 1
        /\ \A i \in 1..Len(hops) :
              LET h     == hops[i]
                  cands == RecordsBetween(route[i], route[i + 1])
              IN  /\ h.u = route[i]
                  /\ h.v = route[i + 1]
                  /\ h.cost = HopCost(costed, h.u, h.v)
                  /\ \E e \in cands :
                        /\ e.line_name = h.line
                        /\ AdjustedCost(e) = h.cost
                  /\ \A e \in cands :
                        /\ AdjustedCost(e) >= h.cost
                        /\ AdjustedCost(e) = h.cost
                              => InputOrder(h.line) <= InputOrder(e.line_name)
        /\ SumCosts(hops) = FoundCost
        /\ \A part \in Parts :
              \A q \in PathsOver(BaseEdges, part.path[1], Last(part.path)) :
                  PathCost(costed, part.path) <= CostOver(BaseEdges, q, {})

\* a route of three stations or more computed in the app with a hop on which
\* two lines tie at the smallest adjusted cost
C17_Witness ==
    /\ Returned
    /\ req.fn = "app"
    /\ Len(route) >= 3
    /\ \E i \in 1..Len(hops) :
          \E e1, e2 \in RecordsBetween(route[i], route[i + 1]) :
              /\ e1.line_name # e2.line_name
              /\ AdjustedCost(e1) = hops[i].cost
              /\ AdjustedCost(e2) = hops[i].cost

\* --- the no-repeat penalty in the costed network ---

\* the costed network has the edges of the network as built, in their order
SameEdgesAsBuilt ==
    /\ Len(costed.edges) = Len(G_built.edges)
    /\ \A i \in BaseEdges :
          /\ {costed.edges[i].u, costed.edges[i].v} = EdgePair(i)
          /\ costed.edges[i].line_name = G_built.edges[i].line_name

\* the station pairs of the outbound path when the penalty loop has run
OutboundHops ==
    IF req.via_st # <<>> /\ req.avoid_revisit THEN Hops(OutboundPart) ELSE {}

\* the edges between the two stations of a pair
EdgesBetween(h) == {i \in BaseEdges : EdgePair(i) = h}

\* C18 as claimed: with no-repeat routing the x10000 penalty lies on one
\* edge (station pair plus line) of every outbound hop, the cheapest one the
\* path used, and every other edge, a parallel edge of another line and
\* every edge off the outbound path, keeps its preference-adjusted cost.
C18_PenaltyOnUsedEdgesOnly ==
    (Returned /\ req.fn = "core") =>
        /\ SameEdgesAsBuilt
        /\ \A h \in OutboundHops :
              \E i \in EdgesBetween(h) :
                  /\ \A j \in EdgesBetween(h) : EdgeCost(i, {}) <= EdgeCost(j, {})
                  /\ costed.edges[i].weight = EdgeCost(i, {}) * REVISIT_PENALTY
                  /\ \A j \in EdgesBetween(h) \ {i} :
                        costed.edges[j].weight = EdgeCost(j, {})
        /\ \A i \in BaseEdges :
              EdgePair(i) \notin OutboundHops => costed.edges[i].weight = EdgeCost(i, {})

\* C18 as amended: with a via-station and no-repeat routing every edge that
\* joins the two stations of an outbound hop, whatever its line, has its
\* preference-adjusted cost multiplied by 10000 exactly once when the return
\* path is computed, and every edge off the outbound hops keeps its
\* preference-adjusted cost; without the flag or without a via-station, and
\* whatever the outcome of the call, no edge is penalised.
C18_PenaltyOnOutboundPairs ==
    /\ (Returned /\ req.fn = "core") =>
          /\ SameEdgesAsBuilt
          /\ \A i \in BaseEdges : costed.edges[i].weight = EdgeCost(i, OutboundHops)
    /\ (Routed /\ req.fn = "core" /\ (req.via_st = <<>> \/ ~req.avoid_revisit)) =>
          /\ SameEdgesAsBuilt
          /\ \A i \in BaseEdges : costed.edges[i].weight = EdgeCost(i, {})

\* a no-repeat via route whose outbound path ran over a station pair joined
\* by two lines, both penalised, while another edge kept its cost
C18_Witness ==
    /\ Returned
    /\ req.fn = "core"
    /\ \E h \in OutboundHops :
          /\ Cardinality(EdgesBetween(h)) >= 2
          /\ \A i \in EdgesBetween(h) :
                costed.edges[i].weight = EdgeCost(i, {}) * REVISIT_PENALTY
    /\ \E i \in BaseEdges :
          EdgePair(i) \notin OutboundHops /\ costed.edges[i].weight = EdgeCost(i, {})

====
